---- MODULE Spec2Model ----
(***************************************************************************)
(* Model of the text-to-diagram dialog of excalidraw (TTDDialog):          *)
(*   - the mindmap pipeline of common.ts (normalizeMindmapNode,            *)
(*     clampMindmapTree, getLeafCount, layoutMindmap) as operators, run    *)
(*     by the specification SpecTree over a bounded family of JSON values; *)
(*   - buildMindmapElements and getRectEdgeAnchor of common.ts, with       *)
(*     numbers as binary floating point of Precision bits, run by the      *)
(*     specifications SpecBuild and SpecAnchor;                            *)
(*   - the asynchronous preview renderers of common.ts                     *)
(*     (convertMermaidToExcalidraw, renderMindmapPreviewFromTreeJson,      *)
(*     insertToEditor) and their callers in TTDDialog.tsx (onGenerate,     *)
(*     onRenderMindmapJson, the theme select), run by the specification    *)
(*     Spec as interleaved tasks that yield at every await.                *)
(***************************************************************************)
EXTENDS Integers, Sequences, FiniteSets, TLC

VARIABLES
  \* ---- the pure pipeline (SpecTree) ----
  stage,        \* position in the pipeline: "off", "input", "rejected", "normalized", "clamped", "laid"
  input,        \* the parsed JSON value handed to normalizeMindmapNode
  normalized,   \* result of normalizeMindmapNode (Null or a MindmapNode)
  clamped,      \* result of clampMindmapTree(normalized)
  reclamped,    \* result of clampMindmapTree(clamped)
  layout,       \* result of layoutMindmap(clamped): [positioned, edges]
  buildResult,  \* result of buildMindmapElements(clamped, themeId)
  anchorArgs,   \* arguments of a call of getRectEdgeAnchor: [element, targetCenterX, targetCenterY]
  anchor,       \* result of that call: [x, y]
  \* ---- the dialog (Spec) ----
  dialogOpen,   \* appState.openDialog is the ttd dialog
  canvasReady,  \* canvasRef.current and its parentElement exist
  generated,    \* ttdGeneration.generatedResponse: [has, text], has = FALSE when null
  inProgress,   \* useState onTextSubmitInProgess
  rateLeft,     \* rateLimits.rateLimitRemaining (-1 when rateLimits is null)
  error,        \* useState error: NoError or a message
  data,         \* data.current.elements (NoElements or one call's elements)
  canvas,       \* the children of the canvas node (NoElements or the canvas of a call)
  background,   \* parent.style.background
  tasks,        \* the asynchronous invocations, by id
  inserted      \* what insertToEditor committed to the document

buildVars == <<buildResult, anchorArgs, anchor>>
treeVars == <<stage, input, normalized, clamped, reclamped, layout, buildVars>>
dialogVars == <<dialogOpen, canvasReady, generated, inProgress,
                rateLeft, error, data, canvas, background, tasks, inserted>>
vars == <<treeVars, dialogVars>>

\* ------------------------------------------------------------------ bounds
\* widest root of an input tree (one more than the clamp keeps)
MaxRoot == 7
\* widest inner node of an input tree (one more than the clamp keeps)
MaxKid == 5
\* length of the repeating pattern of fan-outs given to the root's children
MaxVar == 2
\* longest chain hanging below a depth-2 node of an input tree
MaxChain == 1
\* longest children array of the malformed JSON values
MaxJunkArr == 2
\* asynchronous invocations (generations, renders, theme changes) per run
MaxCalls == 2

\* --------------------------------------------------------------- JSON values
\* A parsed JSON value is a record tagged by k; reading a property an object
\* does not have gives Undefined, as in JavaScript.
Undefined == [k |-> "undefined"]
JNull == [k |-> "null"]
JNum(n) == [k |-> "num", v |-> n]
JStr(s) == [k |-> "str", v |-> s]
JArr(items) == [k |-> "arr", v |-> items]
JObj(t, c) == [k |-> "obj", topic |-> t, children |-> c]

\* !node of JavaScript: null, undefined, 0 and "" are falsy
Falsy(v) ==
  \/ v.k \in {"null", "undefined"}
  \/ (v.k = "num" /\ v.v = 0)
  \/ (v.k = "str" /\ v.v = "")

\* typeof node === "object": objects, arrays and null
TypeofObject(v) == v.k \in {"obj", "arr", "null"}

\* node.topic, node.children: a property read
Prop(v, name) ==
  IF v.k = "obj" THEN (IF name = "topic" THEN v.topic ELSE v.children) ELSE Undefined

\* the result null of normalizeMindmapNode
Null == [k |-> "null"]

Min(a, b) == IF a < b THEN a ELSE b

\* -------------------------------------------------------- mindmap pipeline
MAX_DEPTH == 3
MAX_CHILDREN_LEVEL1 == 6
MAX_CHILDREN_OTHER == 4
H_GAP == 260
V_GAP == 110

\* node.children || []
ChildrenOf(node) == IF "children" \in DOMAIN node THEN node.children ELSE <<>>

\* const v = value; Body(v): the value is computed once, before the body
Const(value, Body(_)) == CHOOSE out \in {Body(v) : v \in {value}} : TRUE

\* variant: one non-conforming child makes the whole node null
RECURSIVE normalizeAllOrNothing(_)
normalizeAllOrNothing(node) ==
  IF Falsy(node) \/ ~TypeofObject(node) \/ Prop(node, "topic").k # "str"
  THEN Null
  ELSE LET kids == Prop(node, "children")
           mapped == IF kids.k = "arr"
                     THEN [i \in 1..Len(kids.v) |-> normalizeAllOrNothing(kids.v[i])]
                     ELSE <<>>
       IN IF \E i \in 1..Len(mapped) : mapped[i] = Null
          THEN Null
          ELSE [topic |-> Prop(node, "topic").v, children |-> mapped]

RECURSIVE normalizeMindmapNode(_)
normalizeMindmapNode(node) ==
  IF Falsy(node) \/ ~TypeofObject(node) \/ Prop(node, "topic").k # "str"
  THEN Null
  ELSE LET kids == Prop(node, "children")
           mapped == IF kids.k = "arr"
                     THEN [i \in 1..Len(kids.v) |-> normalizeMindmapNode(kids.v[i])]
                     ELSE <<>>
           IsNode(c) == c # Null
       IN [topic |-> Prop(node, "topic").v, children |-> SelectSeq(mapped, IsNode)]

\* variant: the depth test is off by one (depth > MAX_DEPTH - 1)
RECURSIVE clampOneLevelMore(_, _)
clampOneLevelMore(node, depth) ==
  LET maxChildren == IF depth = 0 THEN MAX_CHILDREN_LEVEL1 ELSE MAX_CHILDREN_OTHER
      all == ChildrenOf(node)
      children == SubSeq(all, 1, Min(maxChildren, Len(all)))
  IN IF depth > MAX_DEPTH - 1 \/ Len(children) = 0
     THEN [topic |-> node.topic]
     ELSE [topic |-> node.topic,
           children |-> [i \in 1..Len(children) |-> clampOneLevelMore(children[i], depth + 1)]]

\* variant: the slice starts one child late (slice(1, maxChildren + 1))
RECURSIVE clampSliceFromOne(_, _)
clampSliceFromOne(node, depth) ==
  LET maxChildren == IF depth = 0 THEN MAX_CHILDREN_LEVEL1 ELSE MAX_CHILDREN_OTHER
      all == ChildrenOf(node)
      children == SubSeq(all, 2, Min(maxChildren + 1, Len(all)))
  IN IF depth >= MAX_DEPTH - 1 \/ Len(children) = 0
     THEN [topic |-> node.topic]
     ELSE [topic |-> node.topic,
           children |-> [i \in 1..Len(children) |-> clampSliceFromOne(children[i], depth + 1)]]

RECURSIVE clampMindmapTree(_, _)
clampMindmapTree(node, depth) ==
  LET maxChildren == IF depth = 0 THEN MAX_CHILDREN_LEVEL1 ELSE MAX_CHILDREN_OTHER
      all == ChildrenOf(node)
      children == SubSeq(all, 1, Min(maxChildren, Len(all)))
  IN IF depth >= MAX_DEPTH - 1 \/ Len(children) = 0
     THEN [topic |-> node.topic]
     ELSE [topic |-> node.topic,
           children |-> [i \in 1..Len(children) |-> clampMindmapTree(children[i], depth + 1)]]

RECURSIVE getLeafCount(_)
\* variant: only a node without the children field counts as a leaf
RECURSIVE getLeafCountOfAbsent(_)
getLeafCountOfAbsent(node) ==
  LET RECURSIVE Reduce(_)
      Reduce(n) == IF n = 0 THEN 0
                   ELSE Reduce(n - 1) + getLeafCountOfAbsent(node.children[n])
  IN IF "children" \notin DOMAIN node THEN 1 ELSE Reduce(Len(node.children))

RECURSIVE SumLeaves(_, _)
\* children.reduce((sum, child) => sum + getLeafCount(child), 0) over the first n children
SumLeaves(children, n) ==
  IF n = 0 THEN 0 ELSE SumLeaves(children, n - 1) + getLeafCount(children[n])

getLeafCount(node) ==
  IF "children" \notin DOMAIN node \/ Len(node.children) = 0
  THEN 1
  ELSE SumLeaves(node.children, Len(node.children))

\* ------------------------------------------------------------ layoutMindmap
\* The accumulator acc holds the two arrays the closures of layoutMindmap push
\* to: positioned (node index i is positioned[i + 1]) and edges.
RECURSIVE layoutSubtree(_, _, _, _, _, _, _)
RECURSIVE ForEachChild(_, _, _, _, _, _, _, _)

\* variant: currentTop advances by V_GAP, whatever the child's leaf count
RECURSIVE ForEachChildFixedStep(_, _, _, _, _, _, _, _)
ForEachChildFixedStep(acc, children, i, side, parentIndex, childX, currentTop, childDepth) ==
  IF i > Len(children)
  THEN acc
  ELSE LET child == children[i]
           leafCount == getLeafCount(child)
           subtreeHeight == leafCount * V_GAP
           centerY == currentTop + ((subtreeHeight - V_GAP) \div 2)
           laid == layoutSubtree(acc, child, side, parentIndex, childX, centerY, childDepth)
       IN \* the child's subtree is laid out before the loop goes on
          IF Len(laid.positioned) > 0
          THEN ForEachChildFixedStep(laid, children, i + 1, side, parentIndex, childX,
                 currentTop + V_GAP, childDepth)
          ELSE laid

\* the forEach loops of layoutSubtree and layoutSide, from child i on:
\* each child is centred in a band of leafCount * V_GAP, then currentTop advances
ForEachChild(acc, children, i, side, parentIndex, childX, currentTop, childDepth) ==
  IF i > Len(children)
  THEN acc
  ELSE LET child == children[i]
           leafCount == getLeafCount(child)
           subtreeHeight == leafCount * V_GAP
           centerY == currentTop + ((subtreeHeight - V_GAP) \div 2)
           laid == layoutSubtree(acc, child, side, parentIndex, childX, centerY, childDepth)
       IN \* the child's subtree is laid out before the loop goes on
          IF Len(laid.positioned) > 0
          THEN ForEachChild(laid, children, i + 1, side, parentIndex, childX,
                 currentTop + subtreeHeight, childDepth)
          ELSE laid

layoutSubtree(acc, node, side, parentIndex, x, centerY, depth) ==
  LET current == [x |-> x, y |-> centerY, depth |-> depth] @@ node
      currentIndex == Len(acc.positioned)
      pushed == [positioned |-> Append(acc.positioned, current),
                 edges |-> Append(acc.edges, [from |-> parentIndex, to |-> currentIndex])]
  IN IF "children" \notin DOMAIN node \/ Len(node.children) = 0
     THEN pushed
     ELSE LET children == node.children
              totalLeaf == SumLeaves(children, Len(children))
              currentTop == centerY - ((totalLeaf * V_GAP - V_GAP) \div 2)
          IN ForEachChild(pushed, children, 1, side, currentIndex,
                          x + (IF side = "right" THEN H_GAP ELSE -H_GAP),
                          currentTop, depth + 1)

layoutSide(acc, nodes, side, parentIndex, parentX, parentY, parentDepth) ==
  IF Len(nodes) = 0
  THEN acc
  ELSE LET totalLeaf == SumLeaves(nodes, Len(nodes))
           currentTop == parentY - ((totalLeaf * V_GAP - V_GAP) \div 2)
       IN ForEachChild(acc, nodes, 1, side, parentIndex,
                       parentX + (IF side = "right" THEN H_GAP ELSE -H_GAP),
                       currentTop, parentDepth + 1)

\* variant: Math.floor in place of Math.ceil
HalfFloor(n) == n \div 2

\* Math.ceil(children.length / 2)
HalfOf(n) == (n + 1) \div 2

\* variant: the right half starts one child late (slice(half + 1))
layoutRightFromHalfPlusOne(root) ==
  LET rootPositioned == [x |-> 0, y |-> 0, depth |-> 0] @@ root
      start == [positioned |-> <<rootPositioned>>, edges |-> <<>>]
      children == ChildrenOf(root)
      half == HalfOf(Len(children))
      leftChildren == SubSeq(children, 1, half)
      rightChildren == SubSeq(children, half + 2, Len(children))
      afterLeft == layoutSide(start, leftChildren, "left", 0, 0, 0, 0)
  IN layoutSide(afterLeft, rightChildren, "right", 0, 0, 0, 0)

\* variant: the right group is laid out before the left group
layoutRightFirst(root) ==
  LET rootPositioned == [x |-> 0, y |-> 0, depth |-> 0] @@ root
      start == [positioned |-> <<rootPositioned>>, edges |-> <<>>]
      children == ChildrenOf(root)
      half == HalfOf(Len(children))
      leftChildren == SubSeq(children, 1, half)
      rightChildren == SubSeq(children, half + 1, Len(children))
      afterRight == layoutSide(start, rightChildren, "right", 0, 0, 0, 0)
  IN layoutSide(afterRight, leftChildren, "left", 0, 0, 0, 0)

layoutMindmap(root) ==
  LET rootX == 0
      rootY == 0
      rootPositioned == [x |-> rootX, y |-> rootY, depth |-> 0] @@ root
      rootIndex == 0
      start == [positioned |-> <<rootPositioned>>, edges |-> <<>>]
      children == ChildrenOf(root)
      half == HalfOf(Len(children))
      leftChildren == SubSeq(children, 1, half)
      rightChildren == SubSeq(children, half + 1, Len(children))
      afterLeft == layoutSide(start, leftChildren, "left", rootIndex, rootX, rootY, 0)
  IN layoutSide(afterLeft, rightChildren, "right", rootIndex, rootX, rootY, 0)

\* ------------------------------------------------------- JavaScript numbers
\* A Number is a binary floating-point value m * 2^e, kept with Precision
\* significant bits where the build keeps 53: m = 0, or 2^(Precision-1) <= |m| <
\* 2^Precision. Every operation returns the representable value nearest to its
\* exact result, ties to even. Exponents are unbounded: the values of the model
\* stay far from overflow and underflow.
Precision == 12

RECURSIVE Pow2(_)
Pow2(k) == IF k = 0 THEN 1 ELSE 2 * Pow2(k - 1)
Abs(n) == IF n < 0 THEN -n ELSE n
RECURSIVE BitLength(_)
\* number of bits of the natural a
BitLength(a) == IF a = 0 THEN 0 ELSE 1 + BitLength(a \div 2)

Zero == [m |-> 0, e |-> 0]
\* the Number nearest to n * 2^e, n an integer
RoundTo(n, e) ==
  IF n = 0
  THEN Zero
  ELSE LET a == Abs(n)
           sign == IF n < 0 THEN -1 ELSE 1
           len == BitLength(a)
       IN IF len <= Precision
          THEN [m |-> sign * a * Pow2(Precision - len), e |-> e - (Precision - len)]
          ELSE LET k == len - Precision
                   q == a \div Pow2(k)
                   r == a % Pow2(k)
                   half == Pow2(k - 1)
                   up == r > half \/ (r = half /\ q % 2 = 1)
                   q1 == IF up THEN q + 1 ELSE q
               IN IF q1 = Pow2(Precision)
                  THEN [m |-> sign * Pow2(Precision - 1), e |-> e + k + 1]
                  ELSE [m |-> sign * q1, e |-> e + k]

\* an integer literal or an integer-valued variable as a Number
Num(n) == RoundTo(n, 0)
FNeg(a) == [m |-> -a.m, e |-> a.e]
\* Math.abs
FAbs(a) == [m |-> Abs(a.m), e |-> a.e]
\* a + b
FAdd(a, b) ==
  IF a.m = 0 THEN b
  ELSE IF b.m = 0 THEN a
  ELSE LET hi == IF a.e >= b.e THEN a ELSE b
           lo == IF a.e >= b.e THEN b ELSE a
           gap == hi.e - lo.e
       IN IF gap > Precision + 2
          THEN hi
          ELSE RoundTo(hi.m * Pow2(gap) + lo.m, lo.e)
\* a - b
FSub(a, b) == FAdd(a, FNeg(b))
\* a * b
FMul(a, b) == RoundTo(a.m * b.m, a.e + b.e)
\* a / b, b not zero: the quotient to Precision + 2 bits, with one more bit that
\* tells whether anything was left over
FDiv(a, b) ==
  IF a.m = 0
  THEN Zero
  ELSE LET sign == IF (a.m < 0) = (b.m < 0) THEN 1 ELSE -1
           n == Abs(a.m) * Pow2(Precision + 2)
           d == Abs(b.m)
           q == n \div d
           sticky == IF n % d = 0 THEN 0 ELSE 1
       IN RoundTo(sign * (2 * q + sticky), a.e - b.e - Precision - 3)
\* a / 2 (exact)
FHalf(a) == IF a.m = 0 THEN Zero ELSE [m |-> a.m, e |-> a.e - 1]
\* a < b
FLess(a, b) ==
  LET d == FSub(a, b) IN d.m < 0
\* Math.min
FMin(a, b) == IF FLess(b, a) THEN b ELSE a

\* ------------------------------------------------------ getRectEdgeAnchor
\* Number.POSITIVE_INFINITY stands for a zero delta: Math.min then returns the
\* other quotient, and the product of the zero delta with it is zero.
getRectEdgeAnchor(element, targetCenterX, targetCenterY) ==
  LET centerX == FAdd(element.x, FHalf(element.width))
      centerY == FAdd(element.y, FHalf(element.height))
      dx == FSub(targetCenterX, centerX)
      dy == FSub(targetCenterY, centerY)
      halfWidth == FHalf(FAbs(element.width))
      halfHeight == FHalf(FAbs(element.height))
  IN IF dx = Zero /\ dy = Zero
     THEN [x |-> centerX, y |-> centerY]
     ELSE LET t == IF dx = Zero THEN FDiv(halfHeight, FAbs(dy))
                   ELSE IF dy = Zero THEN FDiv(halfWidth, FAbs(dx))
                   ELSE FMin(FDiv(halfWidth, FAbs(dx)), FDiv(halfHeight, FAbs(dy)))
          IN [x |-> FAdd(centerX, FMul(dx, t)), y |-> FAdd(centerY, FMul(dy, t))]

\* --------------------------------------------------- buildMindmapElements
Eighths(n) == RoundTo(n, -3)

\* variant: only depth 2 gets the third style, deeper nodes the element defaults
getNodeStyleUpToTwo(themeId, depth) ==
  IF depth > 2
  THEN [strokeColor |-> "#1e1e1e", backgroundColor |-> "transparent", strokeWidth |-> Num(2)]
  ELSE IF depth = 0
  THEN [strokeColor |-> "#111827", backgroundColor |-> "#E5E7EB", strokeWidth |-> Num(2)]
  ELSE IF depth = 1
  THEN [strokeColor |-> "#1D4ED8", backgroundColor |-> "#EFF6FF", strokeWidth |-> Num(2)]
  ELSE [strokeColor |-> "#4B5563", backgroundColor |-> "#F9FAFB", strokeWidth |-> Eighths(12)]

\* getNodeStyleByDepth(depth), with the themeId of the enclosing call
getNodeStyleByDepth(themeId, depth) ==
  IF themeId = "warm"
  THEN IF depth = 0
       THEN [strokeColor |-> "#7C2D12", backgroundColor |-> "#FFEDD5", strokeWidth |-> Num(2)]
       ELSE IF depth = 1
       THEN [strokeColor |-> "#9A3412", backgroundColor |-> "#FED7AA", strokeWidth |-> Num(2)]
       ELSE [strokeColor |-> "#92400E", backgroundColor |-> "#FFFBEB",
             strokeWidth |-> Eighths(12)]
  ELSE IF themeId = "cool"
  THEN IF depth = 0
       THEN [strokeColor |-> "#0F766E", backgroundColor |-> "#CCFBF1", strokeWidth |-> Num(2)]
       ELSE IF depth = 1
       THEN [strokeColor |-> "#0369A1", backgroundColor |-> "#E0F2FE", strokeWidth |-> Num(2)]
       ELSE [strokeColor |-> "#475569", backgroundColor |-> "#F8FAFC",
             strokeWidth |-> Eighths(12)]
  ELSE IF depth = 0
       THEN [strokeColor |-> "#111827", backgroundColor |-> "#E5E7EB", strokeWidth |-> Num(2)]
       ELSE IF depth = 1
       THEN [strokeColor |-> "#1D4ED8", backgroundColor |-> "#EFF6FF", strokeWidth |-> Num(2)]
       ELSE [strokeColor |-> "#4B5563", backgroundColor |-> "#F9FAFB",
             strokeWidth |-> Eighths(12)]

\* randomId(): the k-th identifier drawn by a call of buildMindmapElements
randomId(k) == k

\* newTextElement: the text is measured (font.w a character, font.h the line)
\* and, aligned center/middle, placed with its centre at (opts.x, opts.y)
newTextElement(opts, font, id) ==
  LET width == FMul(font.w, Num(Len(opts.text)))
      height == font.h
  IN [type |-> "text", id |-> id,
      x |-> FSub(opts.x, FHalf(width)), y |-> FSub(opts.y, FHalf(height)),
      width |-> width, height |-> height,
      text |-> opts.text, textAlign |-> opts.textAlign,
      verticalAlign |-> opts.verticalAlign,
      strokeColor |-> opts.strokeColor, groupIds |-> opts.groupIds]

\* newElement({type: "rectangle", ...})
newElement(opts, id) ==
  [type |-> opts.type, id |-> id, x |-> opts.x, y |-> opts.y,
   width |-> opts.width, height |-> opts.height,
   strokeColor |-> opts.strokeColor, backgroundColor |-> opts.backgroundColor,
   strokeWidth |-> opts.strokeWidth, groupIds |-> opts.groupIds, boundElements |-> {}]

\* newArrowElement({type: "arrow", ...})
newArrowElement(opts, id) ==
  [type |-> opts.type, id |-> id, x |-> opts.x, y |-> opts.y,
   width |-> opts.width, height |-> opts.height, points |-> opts.points,
   endArrowhead |-> opts.endArrowhead, startArrowhead |-> Null,
   strokeWidth |-> opts.strokeWidth, startBinding |-> Null, endBinding |-> Null]

paddingX == 24
paddingY == 16

\* the primitives of one node, as createNodeElements makes them; drawn is the
\* number of identifiers drawn before
NodeElements(node, themeId, font, drawn) ==
  LET nodeGroupId == randomId(drawn + 1)
      style == getNodeStyleByDepth(themeId, node.depth)
  IN Const(newTextElement(
             [x |-> Num(node.x), y |-> Num(node.y), text |-> node.topic,
              textAlign |-> "center", verticalAlign |-> "middle",
              strokeColor |-> style.strokeColor, groupIds |-> <<nodeGroupId>>],
             font, randomId(drawn + 2)),
           LAMBDA textElement :
             [rectElement |-> newElement(
                [type |-> "rectangle",
                 x |-> FSub(textElement.x, FHalf(Num(paddingX))),
                 y |-> FSub(textElement.y, FHalf(Num(paddingY))),
                 width |-> FAdd(textElement.width, Num(paddingX)),
                 height |-> FAdd(textElement.height, Num(paddingY)),
                 strokeColor |-> style.strokeColor,
                 backgroundColor |-> style.backgroundColor,
                 strokeWidth |-> style.strokeWidth, groupIds |-> <<nodeGroupId>>],
                randomId(drawn + 3)),
              textElement |-> textElement])

\* variant: the label is pushed before its rectangle
createNodeElementsTextFirst(acc, node, themeId, font) ==
  Const(NodeElements(node, themeId, font, acc.drawn),
        LAMBDA made :
          [acc EXCEPT !.elements = acc.elements \o <<made.textElement, made.rectElement>>,
                      !.nodeRects = Append(acc.nodeRects, made.rectElement),
                      !.drawn = acc.drawn + 3])

\* createNodeElements(node) and nodeRects[index] = rectElement
createNodeElements(acc, node, themeId, font) ==
  Const(NodeElements(node, themeId, font, acc.drawn),
        LAMBDA made :
          [acc EXCEPT !.elements = acc.elements \o <<made.rectElement, made.textElement>>,
                      !.nodeRects = Append(acc.nodeRects, made.rectElement),
                      !.drawn = acc.drawn + 3])

\* positioned.forEach((node, index) => ...)
RECURSIVE PositionedForEach(_, _, _, _, _)
PositionedForEach(acc, positioned, i, themeId, font) ==
  IF i > Len(positioned)
  THEN acc
  ELSE Const(createNodeElements(acc, positioned[i], themeId, font),
             LAMBDA next : PositionedForEach(next, positioned, i + 1, themeId, font))

\* the arrow between the anchors of two rectangles
ArrowBetween(parentRect, childRect, id) ==
  Const(<<FAdd(parentRect.x, FHalf(parentRect.width)),
          FAdd(parentRect.y, FHalf(parentRect.height)),
          FAdd(childRect.x, FHalf(childRect.width)),
          FAdd(childRect.y, FHalf(childRect.height))>>,
        LAMBDA center :
          Const(<<getRectEdgeAnchor(parentRect, center[3], center[4]),
                  getRectEdgeAnchor(childRect, center[1], center[2])>>,
                LAMBDA anchors :
                  Const(<<FSub(anchors[2].x, anchors[1].x), FSub(anchors[2].y, anchors[1].y)>>,
                        LAMBDA d :
                          newArrowElement(
                            [type |-> "arrow", x |-> anchors[1].x, y |-> anchors[1].y,
                             width |-> d[1], height |-> d[2],
                             points |-> <<<<Zero, Zero>>, <<d[1], d[2]>>>>,
                             endArrowhead |-> "arrow", strokeWidth |-> Num(2)],
                            id))))

\* the body of edges.forEach for one edge
EdgeElements(acc, edge) ==
  IF edge.from + 1 \notin DOMAIN acc.nodeRects \/ edge.to + 1 \notin DOMAIN acc.nodeRects
  THEN acc
  ELSE LET parentRect == acc.nodeRects[edge.from + 1]
           childRect == acc.nodeRects[edge.to + 1]
       IN Const(ArrowBetween(parentRect, childRect, randomId(acc.drawn + 1)),
                LAMBDA arrow :
                  [acc EXCEPT !.elements = Append(acc.elements, arrow),
                              !.lineBindings = Append(acc.lineBindings,
                                                      [line |-> arrow.id,
                                                       from |-> parentRect.id,
                                                       to |-> childRect.id]),
                              !.drawn = acc.drawn + 1])

\* edges.forEach(({ from, to }) => ...)
RECURSIVE EdgesForEach(_, _, _)
EdgesForEach(acc, edges, k) ==
  IF k > Len(edges)
  THEN acc
  ELSE Const(EdgeElements(acc, edges[k]),
             LAMBDA next : EdgesForEach(next, edges, k + 1))

\* variant: the lookup is filled before the arrows are pushed
elementsMapOfNodes(elements) ==
  {elements[i].id : i \in {j \in DOMAIN elements : elements[j].type # "arrow"}}

\* elements.forEach((element) => elementsMap.set(element.id, element))
elementsMap(elements) == {elements[i].id : i \in DOMAIN elements}

\* bindLinearElement(line, hovered, startOrEnd, scene): the binding is made
\* on the primitives the scene's lookup holds
bindLinearElement(elements, line, hovered, startOrEnd, scene) ==
  IF line \notin scene \/ hovered \notin scene
  THEN elements
  ELSE [i \in DOMAIN elements |->
         LET e == elements[i]
         IN IF e.id = line
            THEN IF startOrEnd = "start"
                 THEN [e EXCEPT !.startBinding = [elementId |-> hovered]]
                 ELSE [e EXCEPT !.endBinding = [elementId |-> hovered]]
            ELSE IF e.id = hovered
            THEN [e EXCEPT !.boundElements = @ \cup {[id |-> line, type |-> "arrow"]}]
            ELSE e]

\* lineBindings.forEach(({ line, from, to }) => ...)
RECURSIVE LineBindingsForEach(_, _, _, _)
LineBindingsForEach(elements, lineBindings, k, scene) ==
  IF k > Len(lineBindings)
  THEN elements
  ELSE Const(bindLinearElement(elements, lineBindings[k].line, lineBindings[k].from,
                               "start", scene),
             LAMBDA started :
               Const(bindLinearElement(started, lineBindings[k].line, lineBindings[k].to,
                                       "end", scene),
                     LAMBDA ended : LineBindingsForEach(ended, lineBindings, k + 1, scene)))

\* what follows the layout in buildMindmapElements
BuildFrom(laid, themeId, font) ==
  Const(PositionedForEach([elements |-> <<>>, nodeRects |-> <<>>, lineBindings |-> <<>>,
                           drawn |-> 0],
                          laid.positioned, 1, themeId, font),
        LAMBDA withNodes :
          Const(EdgesForEach(withNodes, laid.edges, 1),
                LAMBDA withArrows :
                  Const(elementsMap(withArrows.elements),
                        LAMBDA scene :
                          [elements |-> LineBindingsForEach(withArrows.elements,
                                                            withArrows.lineBindings, 1, scene),
                           files |-> Null,
                           scene |-> scene,
                           themeId |-> themeId])))

\* the result, with the theme asked for and the lookup the binding used
\* recorded next to it
buildMindmapElements(root, themeId, font) ==
  Const(layoutMindmap(root), LAMBDA laid : BuildFrom(laid, themeId, font))

\* ------------------------------------------------- inputs of the pipeline
\* Shaped trees: the root has r children, child i has ks[((i-1) % MaxVar) + 1]
\* children, below each of those hangs a chain of c single children; a node
\* without children carries leafKind as its children property (absent or []).
\* Topics are the paths, so every node of a tree has a topic of its own.
RECURSIVE GenChain(_, _, _)
GenChain(topic, c, leafKind) ==
  IF c = 0
  THEN JObj(JStr(topic), leafKind)
  ELSE JObj(JStr(topic), JArr(<<GenChain(topic \o ".1", c - 1, leafKind)>>))

GenMid(topic, k, c, leafKind) ==
  IF k = 0
  THEN JObj(JStr(topic), leafKind)
  ELSE JObj(JStr(topic),
            JArr([j \in 1..k |-> GenChain(topic \o "." \o ToString(j), c, leafKind)]))

GenRoot(r, ks, c, leafKind) ==
  IF r = 0
  THEN JObj(JStr("r"), leafKind)
  ELSE JObj(JStr("r"),
            JArr([i \in 1..r |->
                   GenMid("r." \o ToString(i), ks[((i - 1) % MaxVar) + 1], c, leafKind)]))

LeafKinds == {Undefined, JArr(<<>>)}

IsShapeInput(v) ==
  \E r \in 0..MaxRoot, ks \in [1..MaxVar -> 0..MaxKid], c \in 0..MaxChain, e \in LeafKinds :
    v = GenRoot(r, ks, c, e)

\* Malformed values: non-objects, objects without a string topic, children
\* that are no array, and arrays mixing all of these with conforming nodes.
JunkAtoms == {JNull, JNum(0), JStr("a"), JArr(<<>>)}
JunkTopics == {Undefined, JStr("t"), JStr(""), JNum(7)}
JunkLeaves ==
  JunkAtoms \cup {JObj(t, Undefined) : t \in JunkTopics}
            \cup {JObj(JStr("t"), c) : c \in {JStr("x"), JArr(<<>>), JNull}}
SeqsUpTo(S, n) == UNION {[1..m -> S] : m \in 1..n}
JunkMids == {JObj(t, JArr(s)) : t \in JunkTopics, s \in SeqsUpTo(JunkLeaves, MaxJunkArr)}
JunkTops ==
  {JObj(JStr("r"), JArr(<<v, JObj(JStr("z"), Undefined)>>)) : v \in JunkMids}
  \cup {JArr(<<v>>) : v \in JunkLeaves}
JunkInputs == JunkLeaves \cup JunkMids \cup JunkTops

\* --------------------------------------------------------- dialog constants
NoText == <<>>
NoResponse == [has |-> FALSE, text |-> <<>>]
NoError == "none"
NoElements == [call |-> 0, n |-> 0]
NoLayout == [positioned |-> <<>>, edges |-> <<>>]
NoBuild == [elements |-> <<>>, files |-> Null, scene |-> {}, themeId |-> "default"]
NoAnchor == [x |-> Zero, y |-> Zero]
NoAnchorArgs == [element |-> [x |-> Zero, y |-> Zero, width |-> Zero, height |-> Zero],
                 targetCenterX |-> Zero, targetCenterY |-> Zero]
BuildIdle ==
  /\ buildResult = NoBuild
  /\ anchorArgs = NoAnchorArgs
  /\ anchor = NoAnchor

\* the dialog before anything was typed or clicked
DialogIdle ==
  /\ dialogOpen = TRUE
  /\ generated = NoResponse
  /\ inProgress = FALSE
  /\ rateLeft = -1
  /\ error = NoError
  /\ data = NoElements
  /\ canvas = NoElements
  /\ background = ""
  /\ tasks = <<>>
  /\ inserted = NoElements

\* ------------------------------------------- SpecTree: the pipeline, staged
InitTree ==
  /\ stage = "input"
  /\ (IsShapeInput(input) \/ input \in JunkInputs)
  /\ normalized = Null
  /\ clamped = Null
  /\ reclamped = Null
  /\ layout = NoLayout
  /\ BuildIdle
  /\ canvasReady = TRUE
  /\ DialogIdle

\* const normalized = normalizeMindmapNode(parsed); if (!normalized) throw
TreeNormalize ==
  /\ stage = "input"
  /\ normalized' = normalizeMindmapNode(input)
  /\ stage' = IF normalized' = Null THEN "rejected" ELSE "normalized"
  /\ UNCHANGED <<input, clamped, reclamped, layout, buildVars, dialogVars>>

\* const clamped = clampMindmapTree(normalized)
TreeClamp ==
  /\ stage = "normalized"
  /\ clamped' = clampMindmapTree(normalized, 0)
  /\ stage' = "clamped"
  /\ UNCHANGED <<input, normalized, reclamped, layout, buildVars, dialogVars>>

\* const { positioned, edges } = layoutMindmap(root)
TreeLayout ==
  /\ stage = "clamped"
  /\ layout' = layoutMindmap(clamped)
  /\ stage' = "laid"
  /\ UNCHANGED <<input, normalized, clamped, reclamped, buildVars, dialogVars>>

\* the clamp applied to its own result
TreeReclamp ==
  /\ stage = "laid"
  /\ reclamped' = clampMindmapTree(clamped, 0)
  /\ stage' = "reclamped"
  /\ UNCHANGED <<input, normalized, clamped, layout, buildVars, dialogVars>>

NextTree == TreeNormalize \/ TreeClamp \/ TreeLayout \/ TreeReclamp

SpecTree == InitTree /\ [][NextTree]_vars

\* ------------------------------- SpecAnchor: getRectEdgeAnchor on its own
\* The rectangles are those createNodeElements makes: around a node of the
\* layout, 24 wider than a measured label of up to MaxAnchorChars characters
\* and 16 taller than a line; the target is the centre of a rectangle one
\* column away, up to MaxAnchorRows half rows above or below, or the centre
\* itself. Measured sizes are in eighths.
MaxAnchorChars == 6
MaxAnchorRows == 8
AnchorCentres == {<<0, 0>>, <<-260, 165>>}
AnchorWidths == {Eighths(8 * 24 + cw * n) : cw \in {59, 67, 78}, n \in 1..MaxAnchorChars}
AnchorHeights == {Eighths(8 * 16 + lh) : lh \in {200, 225}}
AnchorDeltas ==
  {<<dx, 55 * r>> : dx \in {-H_GAP, 0, H_GAP}, r \in (-MaxAnchorRows)..MaxAnchorRows}
AnchorArgs(c, w, h, d) ==
  [element |-> [x |-> FSub(Num(c[1]), FHalf(w)), y |-> FSub(Num(c[2]), FHalf(h)),
                width |-> w, height |-> h],
   targetCenterX |-> Num(c[1] + d[1]),
   targetCenterY |-> Num(c[2] + d[2])]

InitAnchor ==
  /\ stage = "anchor-args"
  /\ input = Null
  /\ normalized = Null
  /\ clamped = Null
  /\ reclamped = Null
  /\ layout = NoLayout
  /\ buildResult = NoBuild
  /\ \E c \in AnchorCentres, w \in AnchorWidths, h \in AnchorHeights, d \in AnchorDeltas :
       anchorArgs = AnchorArgs(c, w, h, d)
  /\ anchor = NoAnchor
  /\ canvasReady = TRUE
  /\ DialogIdle

\* getRectEdgeAnchor(element, targetCenterX, targetCenterY)
CallAnchor ==
  /\ stage = "anchor-args"
  /\ anchor' = getRectEdgeAnchor(anchorArgs.element, anchorArgs.targetCenterX,
                                  anchorArgs.targetCenterY)
  /\ stage' = "anchored"
  /\ UNCHANGED <<input, normalized, clamped, reclamped, layout, buildResult, anchorArgs,
                 dialogVars>>

NextAnchor == CallAnchor

SpecAnchor == InitAnchor /\ [][NextAnchor]_vars

\* ---------------------------- SpecBuild: buildMindmapElements on its own
\* The trees are clamped trees of shaped inputs, which reach below the depth
\* the clamp keeps; the theme is one of the select's three; a font gives the
\* measured width of a character and the height of a line.
MaxBuildRoot == 3
MaxBuildKid == 2
Themes == {"default", "warm", "cool"}
Fonts == {[w |-> Num(8), h |-> Num(24)], [w |-> Num(10), h |-> Num(26)]}

InitBuild ==
  /\ stage = "clamped"
  /\ \E r \in 0..MaxBuildRoot, ks \in [1..MaxVar -> 0..MaxBuildKid], e \in LeafKinds :
       input = GenRoot(r, ks, MaxChain, e)
  /\ normalized = normalizeMindmapNode(input)
  /\ clamped = clampMindmapTree(normalized, 0)
  /\ reclamped = Null
  /\ layout = NoLayout
  /\ BuildIdle
  /\ canvasReady = TRUE
  /\ DialogIdle

\* const { elements, files } = buildMindmapElements(clamped, themeId)
TreeBuild(themeId, font) ==
  /\ stage = "clamped"
  /\ layout' = layoutMindmap(clamped)
  /\ buildResult' = buildMindmapElements(clamped, themeId, font)
  /\ stage' = "built"
  /\ UNCHANGED <<input, normalized, clamped, reclamped, anchorArgs, anchor, dialogVars>>

NextBuild == \E themeId \in Themes, font \in Fonts : TreeBuild(themeId, font)

SpecBuild == InitBuild /\ [][NextBuild]_vars

\* ====================================================== claims on the pipeline
\* helpers of the statements (they restate the claims, not the code)
RECURSIVE WithinLimits(_, _)
WithinLimits(node, depth) ==
  /\ depth <= 2
  /\ Len(ChildrenOf(node)) <= (IF depth = 0 THEN 6 ELSE 4)
  /\ \A i \in 1..Len(ChildrenOf(node)) : WithinLimits(ChildrenOf(node)[i], depth + 1)

RECURSIVE PrefixImage(_, _)
PrefixImage(c, t) ==
  /\ c.topic = t.topic
  /\ Len(ChildrenOf(c)) <= Len(ChildrenOf(t))
  /\ \A i \in 1..Len(ChildrenOf(c)) : PrefixImage(ChildrenOf(c)[i], ChildrenOf(t)[i])

RECURSIVE HeightOf(_)
HeightOf(node) ==
  LET hs == {HeightOf(ChildrenOf(node)[i]) : i \in 1..Len(ChildrenOf(node))}
  IN IF hs = {} THEN 0 ELSE 1 + CHOOSE h \in hs : \A g \in hs : g <= h

RECURSIVE NodeCount(_)
RECURSIVE SumCounts(_, _)
SumCounts(children, n) ==
  IF n = 0 THEN 0 ELSE SumCounts(children, n - 1) + NodeCount(children[n])
NodeCount(node) == 1 + SumCounts(ChildrenOf(node), Len(ChildrenOf(node)))

\* the states right after the clamp and right after the layout (the later
\* stages leave clamped and layout as they are)
Clamped == stage = "clamped"
Laid == stage = "laid"

\* C1: the clamped tree has nodes at depths 0, 1 and 2 only, at most 6 children
\* at the root and 4 elsewhere, and the children of every kept node are the
\* images of a prefix of the original children, in order; a root with more than
\* 6 children keeps exactly the first 6.
C1_ClampBounds ==
  Clamped =>
    /\ WithinLimits(clamped, 0)
    /\ PrefixImage(clamped, normalized)
    /\ (Len(ChildrenOf(normalized)) > 6 => Len(ChildrenOf(clamped)) = 6)

C1_Witness ==
  /\ stage = "clamped"
  /\ Len(ChildrenOf(normalized)) > 6
  /\ \E i \in 1..6 : Len(ChildrenOf(normalized.children[i])) > 4
  /\ HeightOf(normalized) > 2
  /\ HeightOf(clamped) = 2

\* C8: clamping the clamped tree changes nothing.
C8_ClampIdempotent == stage = "reclamped" => reclamped = clamped

C8_Witness ==
  /\ stage = "reclamped"
  /\ clamped # normalized
  /\ Len(ChildrenOf(normalized)) > 6
  /\ HeightOf(clamped) = 2

\* what the claim calls a conforming value: an object whose topic is a string
Conforms(v) == v.k = "obj" /\ v.topic.k = "str"
ItemsOf(v) == IF v.k = "obj" /\ v.children.k = "arr" THEN v.children.v ELSE <<>>

RECURSIVE Matches(_, _)
Matches(n, v) ==
  LET good == SelectSeq(ItemsOf(v), Conforms)
  IN /\ DOMAIN n = {"topic", "children"}
     /\ n.topic = v.topic.v
     /\ Len(n.children) = Len(good)
     /\ \A i \in 1..Len(good) : Matches(n.children[i], good[i])

\* C4: the normalizer returns null exactly for a value that is no object with
\* a string topic; otherwise its result has the value's topic and, in order,
\* the normalized images of exactly the conforming elements of children.
C4_NormalizeTotal ==
  stage # "input" =>
    /\ (normalized = Null) <=> ~Conforms(input)
    /\ (normalized # Null => Matches(normalized, input))

\* a non-conforming grandchild is dropped; its parent and its sibling are kept
C4_Witness ==
  /\ stage = "normalized"
  /\ Len(ItemsOf(input)) = 2
  /\ Len(ItemsOf(ItemsOf(input)[1])) = 2
  /\ ~Conforms(ItemsOf(ItemsOf(input)[1])[1])
  /\ Conforms(ItemsOf(ItemsOf(input)[1])[2])
  /\ Len(normalized.children) = 2
  /\ Len(normalized.children[1].children) = 1

\* ---- the layout read back from its output
PosAt(j) == layout.positioned[j + 1]
NodeIds == 0..(Len(layout.positioned) - 1)
\* the children of node p: the targets of the edges leaving p, in edge order
KidsAt(p) ==
  LET FromP(e) == e.from = p
      es == SelectSeq(layout.edges, FromP)
  IN [i \in 1..Len(es) |-> es[i].to]
ParentAt(j) == (CHOOSE i \in 1..Len(layout.edges) : layout.edges[i].to = j)
RECURSIVE TopAt(_)
\* the child of the root above node j (j itself when it is one)
TopAt(j) ==
  LET p == layout.edges[ParentAt(j)].from IN IF p = 0 THEN j ELSE TopAt(p)
\* position of v in the sequence s
RankIn(s, v) == CHOOSE i \in 1..Len(s) : s[i] = v
RECURSIVE SumLeafAt(_, _)
\* leaf counts of the first n nodes of the group g (a sequence of node ids)
SumLeafAt(g, n) == IF n = 0 THEN 0 ELSE SumLeafAt(g, n - 1) + getLeafCount(PosAt(g[n]))

RECURSIVE TopicPairs(_)
TopicPairs(node) ==
  {<<node.topic, ChildrenOf(node)[i].topic>> : i \in 1..Len(ChildrenOf(node))}
  \cup UNION {TopicPairs(ChildrenOf(node)[i]) : i \in 1..Len(ChildrenOf(node))}

\* C5: one positioned node per node of the clamped tree, one edge per
\* parent-child pair, the root first, at (0, 0) and depth 0.
C5_LayoutCounts ==
  Laid =>
    /\ Len(layout.positioned) = NodeCount(clamped)
    /\ Len(layout.edges) = NodeCount(clamped) - 1
    /\ PosAt(0).x = 0 /\ PosAt(0).y = 0 /\ PosAt(0).depth = 0
    /\ PosAt(0).topic = clamped.topic
    /\ {<<PosAt(layout.edges[i].from).topic, PosAt(layout.edges[i].to).topic>> :
           i \in 1..Len(layout.edges)} = TopicPairs(clamped)
    /\ (NodeCount(clamped) = 1 => layout.edges = <<>> /\ Len(layout.positioned) = 1)

C5_Witness ==
  /\ stage = "laid"
  /\ Len(layout.positioned) = 31
  /\ Len(layout.edges) = 30

\* C6: the first ceil(k/2) children of the root, in order, and everything
\* below them lie at x = -260 * depth; the others at x = +260 * depth.
C6_SidesSplit ==
  Laid =>
    LET rootKids == KidsAt(0)
        k == Len(ChildrenOf(clamped))
    IN /\ Len(rootKids) = k
       /\ \A i \in 1..k : PosAt(rootKids[i]).topic = clamped.children[i].topic
       /\ \A j \in NodeIds \ {0} :
            LET rank == RankIn(rootKids, TopAt(j))
            IN IF 2 * rank <= k + 1
               THEN PosAt(j).x = -260 * PosAt(j).depth
               ELSE PosAt(j).x = 260 * PosAt(j).depth

C6_Witness ==
  /\ stage = "laid"
  /\ Len(ChildrenOf(clamped)) = 5
  /\ \E j \in NodeIds : PosAt(j).depth = 2 /\ PosAt(j).x = -520
  /\ \E j \in NodeIds : PosAt(j).depth = 2 /\ PosAt(j).x = 520
  /\ PosAt(KidsAt(0)[3]).x = -260
  /\ PosAt(KidsAt(0)[4]).x = 260

\* the groups of children of node p: two for the root, one for any other node
GroupsAt(p) ==
  LET kids == KidsAt(p)
      half == (Len(kids) + 1) \div 2
  IN IF p = 0
     THEN {SubSeq(kids, 1, half), SubSeq(kids, half + 1, Len(kids))}
     ELSE {kids}

\* C7: in every group c1..ck below a node p, with li the leaf count of ci and L
\* their sum, ci lies at y = p.y - (L*110 - 110)/2 + 110*(l1+...+l(i-1)) + (li*110 - 110)/2
\* (stated doubled, to stay in the integers), and the group is the node's children in order.
C7_BandsCentered ==
  Laid =>
    \A p \in NodeIds :
      /\ Len(KidsAt(p)) = Len(ChildrenOf(PosAt(p)))
      /\ \A i \in 1..Len(KidsAt(p)) :
           PosAt(KidsAt(p)[i]).topic = ChildrenOf(PosAt(p))[i].topic
      /\ \A g \in GroupsAt(p) :
           \A i \in 1..Len(g) :
             LET L == SumLeafAt(g, Len(g))
                 li == getLeafCount(PosAt(g[i]))
             IN 2 * PosAt(g[i]).y =
                  2 * PosAt(p).y - (L * 110 - 110) + 220 * SumLeafAt(g, i - 1)
                  + (li * 110 - 110)

C7_Witness ==
  /\ stage = "laid"
  /\ \E p \in NodeIds \ {0} :
       /\ PosAt(p).y # 0
       /\ Len(KidsAt(p)) = 3
       /\ PosAt(KidsAt(p)[1]).y = PosAt(p).y - 110
       /\ PosAt(KidsAt(p)[3]).y = PosAt(p).y + 110
  /\ \E g \in GroupsAt(0) :
       /\ Len(g) = 3
       /\ getLeafCount(PosAt(g[1])) = 3
       /\ getLeafCount(PosAt(g[2])) = 1

\* ---- pre-order of a tree: each node with the index of its parent and its depth
RECURSIVE Visit(_, _, _, _)
RECURSIVE VisitAll(_, _, _, _, _)
VisitAll(acc, children, i, parent, depth) ==
  IF i > Len(children)
  THEN acc
  ELSE LET seen == Visit(acc, children[i], parent, depth)
       IN IF Len(seen) > 0 THEN VisitAll(seen, children, i + 1, parent, depth) ELSE seen
Visit(acc, node, parent, depth) ==
  VisitAll(Append(acc, [topic |-> node.topic, parent |-> parent, depth |-> depth]),
           ChildrenOf(node), 1, Len(acc), depth + 1)
PreOrder(root) == Visit(<<>>, root, -1, 0)

\* C12: the positioned nodes are the nodes of the tree in pre-order (the root,
\* then the left group subtree by subtree, then the right group); edge number
\* k (from 0) ends at node k + 1 and starts at that node's parent, which comes
\* earlier and is one level higher.
C12_PreOrderEdges ==
  Laid =>
    LET pre == PreOrder(clamped)
    IN /\ Len(layout.positioned) = Len(pre)
       /\ \A j \in NodeIds :
            /\ PosAt(j).topic = pre[j + 1].topic
            /\ PosAt(j).depth = pre[j + 1].depth
       /\ Len(layout.edges) = Len(pre) - 1
       /\ \A k \in 0..(Len(layout.edges) - 1) :
            LET e == layout.edges[k + 1]
            IN /\ e.to = k + 1
               /\ e.from = pre[k + 2].parent
               /\ e.from >= 0
               /\ e.from < e.to
               /\ PosAt(e.to).depth = PosAt(e.from).depth + 1
       /\ \A i \in NodeIds, j \in NodeIds :
            (PosAt(i).x < 0 /\ PosAt(j).x > 0) => i < j

\* both groups hold a subtree of two levels, and a node of the right group has
\* its parent several places before it
C12_Witness ==
  /\ stage = "laid"
  /\ \E i \in NodeIds, j \in NodeIds :
       /\ PosAt(i).x < 0 /\ PosAt(i).depth = 2
       /\ PosAt(j).x > 0 /\ PosAt(j).depth = 2
       /\ layout.edges[j].from < j - 2

\* the subtrees of a tree, and the paths from a node to its childless nodes
RECURSIVE SubtreesOf(_)
SubtreesOf(node) ==
  {node} \cup UNION {SubtreesOf(ChildrenOf(node)[i]) : i \in 1..Len(ChildrenOf(node))}

RECURSIVE LeafPaths(_)
LeafPaths(node) ==
  IF Len(ChildrenOf(node)) = 0
  THEN {<<>>}
  ELSE UNION {{<<i>> \o path : path \in LeafPaths(ChildrenOf(node)[i])} :
                i \in 1..Len(ChildrenOf(node))}

RECURSIVE SumOf(_)
SumOf(numbers) == IF numbers = <<>> THEN 0 ELSE Head(numbers) + SumOf(Tail(numbers))

NormalizedTrees == IF normalized = Null THEN {} ELSE SubtreesOf(normalized)
ClampedTrees == IF clamped = Null THEN {} ELSE SubtreesOf(clamped)

\* C18: for every node of the normalized and of the clamped tree, getLeafCount
\* is 1 when the children field is absent and 1 when the children are empty,
\* and otherwise the sum of getLeafCount over the children; it is positive
\* and equal to the number of childless nodes of the subtree; a normalized
\* leaf (children = []) and its clamped copy (no children field) both count 1.
C18_LeafCount ==
  /\ \A node \in NormalizedTrees \cup ClampedTrees :
       /\ "children" \notin DOMAIN node => getLeafCount(node) = 1
       /\ ("children" \in DOMAIN node /\ node.children = <<>>) => getLeafCount(node) = 1
       /\ ("children" \in DOMAIN node /\ node.children # <<>>)
            => getLeafCount(node)
                 = SumOf([i \in 1..Len(node.children) |-> getLeafCount(node.children[i])])
       /\ getLeafCount(node) > 0
       /\ getLeafCount(node) = Cardinality(LeafPaths(node))
  /\ \A node \in NormalizedTrees :
       node.children = <<>>
         => \A depth \in 0..MAX_DEPTH :
              LET copy == clampMindmapTree(node, depth)
              IN /\ "children" \notin DOMAIN copy
                 /\ getLeafCount(copy) = getLeafCount(node)

\* a clamped tree with several leaves, whose normalized tree has leaves with
\* an empty children array, some of them below nodes the clamp made leaves
C18_Witness ==
  /\ Clamped
  /\ getLeafCount(clamped) >= 5
  /\ getLeafCount(normalized) > getLeafCount(clamped)
  /\ \E node \in NormalizedTrees : node.children = <<>>
  /\ \E node \in ClampedTrees : "children" \notin DOMAIN node

\* the nodes below node j, j included, and the side of a node
RECURSIVE IsBelow(_, _)
IsBelow(j, a) == j = a \/ (j # 0 /\ IsBelow(layout.edges[ParentAt(j)].from, a))
SubtreeAt(a) == {j \in NodeIds : IsBelow(j, a)}
SideAt(j) == IF PosAt(j).x < 0 THEN "left" ELSE IF PosAt(j).x > 0 THEN "right" ELSE "root"
LeavesAt(side) == {j \in NodeIds : SideAt(j) = side /\ Len(ChildrenOf(PosAt(j))) = 0}

\* C20: in the layout of a clamped tree no two nodes share a position; two
\* nodes of one side at one depth are at least 110 apart in y; of two siblings
\* of one group the subtree of the earlier one lies wholly above the subtree
\* of the later one; and each leaf of a side lies exactly 110 below the leaf
\* of that side visited before it.
C20_NodesApart ==
  Laid =>
    /\ \A i \in NodeIds, j \in NodeIds :
         i # j => <<PosAt(i).x, PosAt(i).y>> # <<PosAt(j).x, PosAt(j).y>>
    /\ \A i \in NodeIds, j \in NodeIds :
         (i # j /\ SideAt(i) = SideAt(j) /\ PosAt(i).depth = PosAt(j).depth)
           => Abs(PosAt(i).y - PosAt(j).y) >= V_GAP
    /\ \A p \in NodeIds :
         \A g \in GroupsAt(p) :
           \A i \in 1..(Len(g) - 1) :
             \A above \in SubtreeAt(g[i]), below \in SubtreeAt(g[i + 1]) :
               PosAt(above).y < PosAt(below).y
    /\ \A side \in {"left", "right"} :
         \A leaf \in LeavesAt(side) :
           LET before == {j \in LeavesAt(side) : j < leaf}
           IN before # {}
                => PosAt(leaf).y
                     = PosAt(CHOOSE j \in before : \A h \in before : h <= j).y + V_GAP

\* a layout with leaves at depths 1 and 2 on the left and several nodes of
\* depth 2 on the right
C20_Witness ==
  /\ Laid
  /\ \E i \in LeavesAt("left"), j \in LeavesAt("left") :
       PosAt(i).depth = 1 /\ PosAt(j).depth = 2
  /\ \E i \in NodeIds, j \in NodeIds :
       /\ i # j
       /\ SideAt(i) = "right" /\ SideAt(j) = "right"
       /\ PosAt(i).depth = 2 /\ PosAt(j).depth = 2
       /\ TopAt(i) # TopAt(j)

\* ================================================================ the dialog
\* ---- texts
\* A string is a sequence of chunks: a blank (" " or a line break), a <br> tag
\* in one of its spellings, a quote, or a run of other characters.
BrTags == {"<br>", "<br/>", "<BR />"}
Blanks == {" ", "\n"}

\* .replace(/<br\s*\/?\>/gi, "\n")
ReplaceBr(s) == [j \in 1..Len(s) |-> IF s[j] \in BrTags THEN "\n" ELSE s[j]]
\* .replace(/"/g, "'")
ReplaceQuotes(s) == [j \in 1..Len(s) |-> IF s[j] = "\"" THEN "'" ELSE s[j]]

RECURSIVE TrimStart(_)
TrimStart(s) == IF Len(s) > 0 /\ s[1] \in Blanks THEN TrimStart(Tail(s)) ELSE s
RECURSIVE TrimEnd(_)
TrimEnd(s) ==
  IF Len(s) > 0 /\ s[Len(s)] \in Blanks THEN TrimEnd(SubSeq(s, 1, Len(s) - 1)) ELSE s
\* String.prototype.trim
Trim(s) == TrimEnd(TrimStart(s))

\* a word of MAX_PROMPT_LENGTH + 1 characters, written short
LongWord == "aaaa...a"
MIN_PROMPT_LENGTH == 3
MAX_PROMPT_LENGTH == 1000
ChunkLength(c) == IF c = LongWord THEN MAX_PROMPT_LENGTH + 1 ELSE Len(c)
RECURSIVE StringLength(_)
\* prompt.length
StringLength(s) == IF Len(s) = 0 THEN 0 ELSE ChunkLength(s[1]) + StringLength(Tail(s))

\* the first and the second definition handed to parseMermaidToExcalidraw
SanitizedDefinition(def) == Trim(ReplaceBr(def))
\* variant: a fallback that keeps the double quotes
FallbackKeepsQuotes(def) == Trim(ReplaceBr(def))
SanitizedFallback(def) == Trim(ReplaceQuotes(ReplaceBr(def)))

\* ---- JSON.parse on the texts of the model
JsonRootABC == "{\"topic\":\"Root\",\"children\":[{\"topic\":\"A\"},{\"topic\":\"B\"},{\"topic\":\"C\"}]}"
JsonNoTopic == "{\"children\":[]}"
JsonNull == "null"
JsonCut == "{\"topic\":"
JsonValueOf(body) ==
  CASE body = JsonRootABC ->
         JObj(JStr("Root"), JArr(<<JObj(JStr("A"), Undefined), JObj(JStr("B"), Undefined),
                                   JObj(JStr("C"), Undefined)>>))
    [] body = JsonNoTopic -> JObj(Undefined, JArr(<<>>))
    [] body = JsonNull -> JNull
\* JSON.parse(treeJson): blanks around the value are skipped; any other text is malformed
JSONParse(treeJson) ==
  LET body == Trim(treeJson)
  IN IF Len(body) = 1 /\ body[1] \in {JsonRootABC, JsonNoTopic, JsonNull}
     THEN [ok |-> TRUE, value |-> JsonValueOf(body[1])]
     ELSE [ok |-> FALSE, value |-> Undefined]

MermaidQuoted == <<" ", "A[", "\"", "x", "<br/>", "y", "\"", "]">>

\* what the user types and what the generation service answers
UserTexts == {NoText, <<" ", JsonRootABC>>, <<JsonNoTopic>>, <<JsonCut>>, <<LongWord>>}
Responses == {NoText, <<JsonRootABC>>, <<JsonNull>>, MermaidQuoted}

\* ---- error messages
ErrTooShort == "Prompt is too short (min 3 characters)"
ErrTooLong == "Prompt is too long (max 1000 characters)"
ErrJsonEmpty == "Mindmap JSON is empty"
ErrService == "error returned by the service"
ErrGenerationFailed == "Generation failed"
ErrRequestFailed == "Request failed"
ErrInvalidDiagram == "Generated an invalid diagram :(. You may also try a different prompt."
ErrParseFailed == "Invalid mindmap data (JSON parse failed)"
ErrMissingTopic == "Invalid mindmap data (missing topic)"
ErrTooBig == "canvasError.canvasTooBig"
ErrRawBlob == "raw canvasToBlob error"
ErrParser == "raw mermaid parser error"
DefaultBg == "var(--default-bg-color)"

\* ---- elements
\* The elements one call builds are fresh objects (random ids): they are named
\* by the call, with their number.
MindmapElements(id, root) ==
  Const(root, LAMBDA tree :
    Const(layoutMindmap(tree), LAMBDA lay :
      [call |-> id, n |-> 2 * Len(lay.positioned) + Len(lay.edges)]))
MermaidElements(id) == [call |-> id, n |-> 1]

\* ---- tasks
\* One task per asynchronous invocation of onGenerate, onRenderMindmapJson or
\* the theme select's onChange. pc is the await the task is suspended at:
\*   "submit"   await submitFn(prompt)
\*   "parse1"   await mermaidToExcalidrawLib.api, then the first parseMermaidToExcalidraw
\*   "parse2"   the second parseMermaidToExcalidraw
\*   "raster"   await exportToCanvas, then await canvasToBlob
\*   "done"     the caller has finished
\* "thrown" and "returned" are how a renderer's step ends when the renderer
\* rejects or resolves: the caller's continuation (its catch, its finally) is a
\* microtask of the same turn of the event loop and belongs to the same step.
\* Awaits with no effect on shared state between them are one step: the
\* dynamic import of ./common is part of the step that reaches it.
\* Once the dialog is closed the component is unmounted: its state and its
\* preview are gone, and the model stops.
NewTask(kind, pc, tb) ==
  [kind |-> kind, pc |-> pc, tab |-> tb, arg |-> NoText, path |-> "none",
   err |-> NoError, calls |-> <<>>, raster |-> "none"]

\* a task that is over keeps what it was and how it ended
Over(task) == [task EXCEPT !.pc = "done", !.arg = NoText, !.calls = <<>>]

\* what the synchronous head of a renderer leaves: the task's next pc, the
\* error it throws, and the shared state it wrote
Unchanged(task) ==
  [task |-> task, error |-> error, data |-> data, canvas |-> canvas,
   background |-> background, inProgress |-> inProgress]

\* resetPreview({ canvasRef, setError })
resetPreview(r) ==
  IF ~canvasReady
  THEN r
  ELSE [r EXCEPT !.background = "", !.error = NoError, !.canvas = NoElements]

\* variant: the preview target is not looked at before the text is parsed
renderMindmapWithoutTarget(id, task, treeJson) ==
  LET r == Unchanged([task EXCEPT !.path = "mindmap", !.arg = treeJson])
      parsed == JSONParse(treeJson)
      norm == normalizeMindmapNode(parsed.value)
  IN IF treeJson = NoText
     THEN [resetPreview(r) EXCEPT !.task.pc = "returned"]
     ELSE IF ~parsed.ok
     THEN [r EXCEPT !.task.pc = "thrown", !.task.err = ErrParseFailed]
     ELSE IF norm = Null
     THEN [r EXCEPT !.task.pc = "thrown", !.task.err = ErrMissingTopic]
     ELSE [r EXCEPT !.task.pc = "raster",
                    !.data = MindmapElements(id, clampMindmapTree(norm, 0))]

\* renderMindmapPreviewFromTreeJson up to its first await
renderMindmapPreviewFromTreeJson(id, task, treeJson) ==
  LET r == Unchanged([task EXCEPT !.path = "mindmap", !.arg = treeJson])
  IN IF ~canvasReady
     THEN [r EXCEPT !.task.pc = "returned"]
     ELSE IF treeJson = NoText
     THEN [resetPreview(r) EXCEPT !.task.pc = "returned"]
     ELSE LET parsed == JSONParse(treeJson)
              norm == normalizeMindmapNode(parsed.value)
              built == MindmapElements(id, clampMindmapTree(norm, 0))
          IN IF ~parsed.ok
             THEN [r EXCEPT !.task.pc = "thrown", !.task.err = ErrParseFailed]
             ELSE IF norm = Null
             THEN [r EXCEPT !.task.pc = "thrown", !.task.err = ErrMissingTopic]
             ELSE [r EXCEPT !.task.pc = "raster", !.data = built]

\* convertMermaidToExcalidraw up to the first call of the parser
convertMermaidToExcalidraw(id, task, mermaidDefinition) ==
  LET r == Unchanged([task EXCEPT !.path = "mermaid", !.arg = mermaidDefinition])
  IN IF ~canvasReady
     THEN [r EXCEPT !.task.pc = "returned"]
     ELSE IF mermaidDefinition = NoText
     THEN [resetPreview(r) EXCEPT !.task.pc = "returned"]
     ELSE [r EXCEPT !.task.pc = "parse1",
                    !.task.calls = <<[def |-> SanitizedDefinition(mermaidDefinition),
                                      res |-> "pending"]>>]

\* variant: every caller shows error.message
CaughtMessageRaw(kind, err) == err

\* the message the caller's catch shows for the error err: onGenerate's is
\* fixed, the other two callers show error.message
CaughtMessage(kind, err) == IF kind = "generate" THEN ErrInvalidDiagram ELSE err
\* variant: onGenerate without its finally block
CallerKeepsFlag(r) ==
  IF r.task.pc = "thrown"
  THEN [r EXCEPT !.task = Over(r.task),
                 !.error = CaughtMessage(r.task.kind, r.task.err)]
  ELSE IF r.task.pc = "returned"
  THEN [r EXCEPT !.task = Over(r.task)]
  ELSE r

\* the caller after the renderer settled: its catch when the renderer rejected,
\* and onGenerate's finally
CallerContinues(r) ==
  Const(r, LAMBDA left :
    LET flag == IF left.task.kind = "generate" THEN FALSE ELSE left.inProgress
    IN IF left.task.pc = "thrown"
       THEN [left EXCEPT !.task = Over(left.task), !.inProgress = flag,
                         !.error = CaughtMessage(left.task.kind, left.task.err)]
       ELSE IF left.task.pc = "returned"
       THEN [left EXCEPT !.task = Over(left.task), !.inProgress = flag]
       ELSE left)

\* ---- Init
Init ==
  /\ stage = "off"
  /\ input = Null
  /\ normalized = Null
  /\ clamped = Null
  /\ reclamped = Null
  /\ layout = NoLayout
  /\ BuildIdle
  /\ canvasReady \in BOOLEAN
  /\ DialogIdle

\* ---- the user
\* The textarea's content (useState text), the tab (appState.openDialog.tab)
\* and the selected theme (useState mindmapThemeId) are what the user has made
\* them when a handler runs: each handler takes them as its inputs, any text of
\* UserTexts and any tab the handler is on. The theme only selects the colours
\* of the elements a call builds, which are named by the call.

\* the preview surface is rendered: canvasRef.current is set
MountCanvas ==
  /\ dialogOpen
  /\ ~canvasReady
  /\ canvasReady' = TRUE
  /\ UNCHANGED <<treeVars, dialogOpen, generated, inProgress,
                 rateLeft, error, data, canvas, background, tasks, inserted>>

\* the shared state a renderer's step leaves, with the task stored under id
Commit(id, r) ==
  \E left \in {r} :
    /\ tasks' = [j \in 1..(IF id > Len(tasks) THEN id ELSE Len(tasks)) |->
                   IF j = id THEN left.task ELSE tasks[j]]
    /\ inProgress' = left.inProgress
    /\ error' = left.error
    /\ data' = left.data
    /\ canvas' = left.canvas
    /\ background' = left.background

\* the theme select's onChange
ChangeTheme ==
  /\ dialogOpen
  /\ IF generated.has /\ generated.text # NoText
     THEN /\ Len(tasks) < MaxCalls
          /\ LET id == Len(tasks) + 1
                 task == NewTask("theme", "start", "mindmap")
             IN Commit(id, CallerContinues(renderMindmapPreviewFromTreeJson(id, task, generated.text)))
     ELSE UNCHANGED <<tasks, inProgress, error, data, canvas, background>>
  /\ UNCHANGED <<treeVars, dialogOpen, canvasReady, generated, rateLeft, inserted>>

\* onRenderMindmapJson, on the tab mindmap-json
onRenderMindmapJson(text) ==
  /\ dialogOpen
  /\ IF Trim(text) = NoText
     THEN /\ error' = ErrJsonEmpty
          /\ UNCHANGED <<tasks, inProgress, data, canvas, background>>
     ELSE /\ Len(tasks) < MaxCalls
          /\ LET id == Len(tasks) + 1
                 task == NewTask("json", "start", "mindmap-json")
             IN Commit(id, CallerContinues(renderMindmapPreviewFromTreeJson(id, task, text)))
  /\ UNCHANGED <<treeVars, dialogOpen, canvasReady, generated,
                 rateLeft, inserted>>

\* onGenerate up to await submitFn(prompt), on the tab text-to-diagram or mindmap
onGenerate(text, tab) ==
  /\ dialogOpen
  /\ LET prompt == Trim(text)
         length == StringLength(prompt)
     IN IF \/ length > MAX_PROMPT_LENGTH
           \/ length < MIN_PROMPT_LENGTH
           \/ inProgress
           \/ rateLeft = 0
        THEN /\ error' = IF length < MIN_PROMPT_LENGTH THEN ErrTooShort
                          ELSE IF length > MAX_PROMPT_LENGTH THEN ErrTooLong
                          ELSE error
             /\ UNCHANGED <<tasks, inProgress>>
        ELSE /\ Len(tasks) < MaxCalls
             /\ inProgress' = TRUE
             /\ tasks' = Append(tasks, NewTask("generate", "submit", tab))
             /\ UNCHANGED error
  /\ UNCHANGED <<treeVars, dialogOpen, canvasReady, generated,
                 rateLeft, data, canvas, background, inserted>>

\* insertToEditor({ app, data }): nothing happens without elements; otherwise
\* data.current goes to the document and setOpenDialog(null) unmounts the
\* dialog, whose state is discarded
insertToEditor ==
  /\ dialogOpen
  /\ data.n # 0
  /\ inserted' = data
  /\ dialogOpen' = FALSE
  /\ canvasReady' = FALSE
  /\ generated' = NoResponse
  /\ inProgress' = FALSE
  /\ rateLeft' = -1
  /\ error' = NoError
  /\ background' = ""
  /\ tasks' = <<>>
  /\ UNCHANGED <<treeVars, data, canvas>>

\* ---- the continuations
\* what submitFn may answer: a text (generatedResponse is a string), an error,
\* neither, or a rejection; rate is rateLimitRemaining when the answer carries
\* finite rate limits, -1 when it does not
ServiceAnswers ==
  [kind : {"text"}, text : Responses, msg : {""}, rate : {-1, 0}]
  \cup [kind : {"error", "nothing"}, text : {NoText}, msg : {""}, rate : {-1, 0}]
  \cup [kind : {"throw"}, text : {NoText}, msg : {"Failed to fetch", "quota exceeded"}, rate : {-1}]

\* onGenerate from the answer of submitFn to the first await of the renderer,
\* or to its end (catch and finally included) when it does not render
SubmitReturns(id, answer) ==
  /\ dialogOpen
  /\ id \in 1..Len(tasks)
  /\ tasks[id].pc = "submit"
  /\ LET task == tasks[id]
         over == Over(task)
     IN IF answer.kind = "throw"
        THEN /\ error' = IF answer.msg = "" \/ answer.msg = "Failed to fetch"
                          THEN ErrRequestFailed ELSE answer.msg
             /\ inProgress' = FALSE
             /\ tasks' = [tasks EXCEPT ![id] = over]
             /\ UNCHANGED <<generated, rateLeft, data, canvas, background>>
        ELSE /\ generated' = IF answer.kind = "text"
                              THEN [has |-> TRUE, text |-> answer.text]
                              ELSE generated
             /\ rateLeft' = IF answer.rate >= 0 THEN answer.rate ELSE rateLeft
             /\ IF answer.kind = "error"
                THEN /\ error' = ErrService
                     /\ inProgress' = FALSE
                     /\ tasks' = [tasks EXCEPT ![id] = over]
                     /\ UNCHANGED <<data, canvas, background>>
                ELSE IF answer.kind = "nothing" \/ answer.text = NoText
                THEN /\ error' = ErrGenerationFailed
                     /\ inProgress' = FALSE
                     /\ tasks' = [tasks EXCEPT ![id] = over]
                     /\ UNCHANGED <<data, canvas, background>>
                ELSE IF task.tab = "mindmap"
                THEN Commit(id, CallerContinues(
                       renderMindmapPreviewFromTreeJson(id, task, answer.text)))
                ELSE Commit(id, CallerContinues(
                       convertMermaidToExcalidraw(id, task, answer.text)))
  /\ UNCHANGED <<treeVars, dialogOpen, canvasReady, inserted>>

\* convertMermaidToExcalidraw after a parse that succeeded: lines 108-125
Parsed(id, task) ==
  LET built == MermaidElements(id)
  IN [Unchanged([task EXCEPT !.pc = "raster", !.calls[Len(task.calls)].res = "ok"])
        EXCEPT !.error = NoError, !.data = built]

\* the first parseMermaidToExcalidraw settles
Parse1Returns(id, ok) ==
  /\ dialogOpen
  /\ id \in 1..Len(tasks)
  /\ tasks[id].pc = "parse1"
  /\ LET task == tasks[id]
     IN IF ok
        THEN Commit(id, Parsed(id, task))
        ELSE Commit(id, Unchanged(
               [task EXCEPT !.pc = "parse2",
                            !.calls = <<[def |-> task.calls[1].def, res |-> "threw"],
                                        [def |-> SanitizedFallback(task.arg),
                                         res |-> "pending"]>>]))
  /\ UNCHANGED <<treeVars, dialogOpen, canvasReady, generated,
                 rateLeft, inserted>>

\* the outer catch of convertMermaidToExcalidraw: lines 138-145
ConvertCaught(task, err) ==
  [Unchanged([task EXCEPT !.pc = "thrown", !.err = err])
     EXCEPT !.background = DefaultBg,
            !.error = IF task.arg # NoText THEN err ELSE error]

\* the second parseMermaidToExcalidraw settles
Parse2Returns(id, ok) ==
  /\ dialogOpen
  /\ id \in 1..Len(tasks)
  /\ tasks[id].pc = "parse2"
  /\ LET task == tasks[id]
     IN IF ok
        THEN Commit(id, Parsed(id, task))
        ELSE Commit(id, CallerContinues(
               ConvertCaught([task EXCEPT !.calls[2].res = "threw"], ErrParser)))
  /\ UNCHANGED <<treeVars, dialogOpen, canvasReady, generated,
                 rateLeft, inserted>>

\* the catch of renderMindmapPreviewFromTreeJson: lines 604-608
RenderCaught(task, err) ==
  [Unchanged([task EXCEPT !.pc = "thrown", !.err = err])
     EXCEPT !.background = DefaultBg, !.error = err]

\* the canvas exportToCanvas returned: it shows the elements the call had put
\* into data.current when it called exportToCanvas
Rasterized(id, task) ==
  IF task.path = "mindmap"
  THEN Const(JSONParse(task.arg).value, LAMBDA parsed :
         Const(normalizeMindmapNode(parsed), LAMBDA norm :
           MindmapElements(id, clampMindmapTree(norm, 0))))
  ELSE MermaidElements(id)

\* the message canvasToBlob's failure is rethrown with
BlobError(outcome) == IF outcome = "tooBig" THEN ErrTooBig ELSE ErrRawBlob

\* exportToCanvas has resolved and canvasToBlob settles: ok, or it fails with
\* the name CANVAS_POSSIBLY_TOO_BIG ("tooBig") or with another error ("other")
RasterReturns(id, outcome) ==
  /\ dialogOpen
  /\ id \in 1..Len(tasks)
  /\ tasks[id].pc = "raster"
  /\ LET task == [tasks[id] EXCEPT !.raster = outcome]
     IN IF outcome = "ok"
        THEN Commit(id, CallerContinues(
               [Unchanged([task EXCEPT !.pc = "returned"])
                  EXCEPT !.background = DefaultBg,
                         !.canvas = Rasterized(id, task),
                         !.error = IF task.path = "mindmap" THEN NoError ELSE error]))
        ELSE IF task.path = "mindmap"
        THEN Commit(id, CallerContinues(RenderCaught(task, BlobError(outcome))))
        ELSE Commit(id, CallerContinues(ConvertCaught(task, BlobError(outcome))))
  /\ UNCHANGED <<treeVars, dialogOpen, canvasReady, generated,
                 rateLeft, inserted>>

Next ==
  \/ MountCanvas
  \/ ChangeTheme
  \/ \E t \in UserTexts : onRenderMindmapJson(t)
  \/ \E t \in UserTexts, tb \in {"text-to-diagram", "mindmap"} : onGenerate(t, tb)
  \/ insertToEditor
  \/ \E id \in 1..MaxCalls, answer \in ServiceAnswers : SubmitReturns(id, answer)
  \/ \E id \in 1..MaxCalls, ok \in BOOLEAN : Parse1Returns(id, ok)
  \/ \E id \in 1..MaxCalls, ok \in BOOLEAN : Parse2Returns(id, ok)
  \/ \E id \in 1..MaxCalls, outcome \in {"ok", "tooBig", "other"} : RasterReturns(id, outcome)

Spec == Init /\ [][Next]_vars

\* the promise call id awaits settles: the answer of submitFn, of the parser
\* or of canvasToBlob arrives
Settles(id) ==
  \/ \E answer \in ServiceAnswers : SubmitReturns(id, answer)
  \/ \E ok \in BOOLEAN : Parse1Returns(id, ok)
  \/ \E ok \in BOOLEAN : Parse2Returns(id, ok)
  \/ \E outcome \in {"ok", "tooBig", "other"} : RasterReturns(id, outcome)

\* every awaited promise settles in the end
SpecLive == Init /\ [][Next]_vars /\ \A id \in 1..MaxCalls : WF_vars(Settles(id))

\* ================================================= the dialog: the claims
TaskIds == 1..Len(tasks)
AllDone == \A id \in TaskIds : tasks[id].pc = "done"
\* the step finishes call id: a new call that ends at once, or one that was waiting
Finishes(id) ==
  /\ id <= Len(tasks')
  /\ tasks'[id].pc = "done"
  /\ (id > Len(tasks) \/ tasks[id].pc # "done")
\* call id ran renderMindmapPreviewFromTreeJson and its canvas was put in the preview
RenderedOk(id) ==
  /\ tasks[id].pc = "done"
  /\ tasks[id].path = "mindmap"
  /\ tasks[id].raster = "ok"

\* C2: once every call has completed, the preview never shows the canvas of a
\* renderMindmapPreviewFromTreeJson call that was superseded: of two calls that
\* both rasterized, the one started first is not the one displayed. A call made
\* by Render or by the theme select starts rendering when it is made, so it
\* started before every call with a greater id.
C2_LatestRenderWins ==
  AllDone =>
    \A a \in TaskIds, b \in TaskIds :
      (a < b /\ tasks[a].kind # "generate" /\ RenderedOk(a) /\ RenderedOk(b))
        => canvas.call # a

\* C3: a renderMindmapPreviewFromTreeJson call that rejects its text (malformed
\* JSON, or a root without a string topic) raises the error, builds and
\* rasterizes nothing, and leaves the preview cleared.
InvalidMindmapData == {ErrParseFailed, ErrMissingTopic}
C3_InvalidJsonClearsPreview ==
  [][\A id \in 1..MaxCalls :
       (Finishes(id) /\ tasks'[id].err \in InvalidMindmapData)
         => /\ tasks'[id].raster = "none"
            /\ data' = data
            /\ canvas' = NoElements]_vars

\* C9: convertMermaidToExcalidraw calls the parser at most twice; the second
\* call happens only after the first threw and is given the first definition
\* with every double quote turned into a single quote (and no <br> tag or outer
\* blank left); when the second throws too the call ends there, with the
\* parser's error, and data.current is not replaced.
ParserCallsOk(task) ==
  LET c == task.calls
  IN /\ Len(c) <= 2
     /\ Len(c) >= 1 =>
          /\ \A j \in 1..Len(c[1].def) : c[1].def[j] \notin BrTags
          /\ c[1].def = Trim(c[1].def)
     /\ Len(c) = 2 =>
          /\ c[1].res = "threw"
          /\ Len(c[2].def) = Len(c[1].def)
          /\ \A j \in 1..Len(c[2].def) :
               c[2].def[j] = IF c[1].def[j] = "\"" THEN "'" ELSE c[1].def[j]
     /\ (task.pc = "parse1") = (Len(c) = 1 /\ c[1].res = "pending")
     /\ (task.pc = "parse2") = (Len(c) = 2 /\ c[2].res = "pending")
C9_ParserAtMostTwice ==
  /\ [](\A id \in TaskIds : ParserCallsOk(tasks[id]))
  /\ [](\A id \in TaskIds :
         (tasks[id].pc = "done" /\ tasks[id].err = ErrParser) => data.call # id)
  /\ [][\A id \in 1..MaxCalls :
         (id <= Len(tasks) /\ id <= Len(tasks') /\ tasks[id].pc = "parse2"
          /\ tasks'[id].pc \notin {"parse2", "raster"})
           => /\ tasks'[id].pc = "done"
              /\ tasks'[id].err = ErrParser
              /\ data' = data
              /\ canvas' = canvas]_vars

\* one call gave up after the parser threw twice, leaving the elements of an
\* earlier call in data.current, and another is in its second parser call with
\* the quotes and the <br/> of the response replaced
C9_Witness ==
  /\ \E a \in TaskIds :
       /\ tasks[a].pc = "done"
       /\ tasks[a].err = ErrParser
  /\ \E b \in TaskIds :
       /\ tasks[b].pc = "parse2"
       /\ tasks[b].calls[1].def = <<"A[", "\"", "x", "\n", "y", "\"", "]">>
       /\ tasks[b].calls[2].def = <<"A[", "'", "x", "\n", "y", "'", "]">>

\* C10: whenever canvasToBlob fails with CANVAS_POSSIBLY_TOO_BIG, the message
\* shown when the call is over is the canvas-too-big message, whoever the
\* caller is.
C10_TooBigShown ==
  [][\A id \in 1..MaxCalls :
       (Finishes(id) /\ tasks'[id].raster = "tooBig") => error' = ErrTooBig]_vars

\* C11: when the parser rejects the first and the sanitized definition during
\* onGenerate, convertMermaidToExcalidraw's catch puts the default background
\* back and sets the raw error before it rethrows, and what the user finally
\* sees is the invalid-diagram message of onGenerate's catch, with the
\* background at its default.
ParserGaveUp(id) ==
  /\ id <= Len(tasks)
  /\ id <= Len(tasks')
  /\ tasks[id].pc = "parse2"
  /\ tasks'[id].pc = "done"
  /\ tasks'[id].err = ErrParser
C11_InvalidDiagramShown ==
  [][\A id \in 1..MaxCalls :
       ParserGaveUp(id)
         => LET left == ConvertCaught(tasks[id], ErrParser)
            IN /\ tasks[id].kind = "generate"
               /\ tasks[id].tab = "text-to-diagram"
               /\ left.task.pc = "thrown"
               /\ left.background = DefaultBg
               /\ left.error = ErrParser
               /\ background' = DefaultBg
               /\ error' = ErrInvalidDiagram
               /\ error' # ErrParser]_vars

\* the parser has rejected both definitions of a generation: the message shown
\* is the invalid-diagram one, over the default background
C11_Witness ==
  /\ \E id \in TaskIds :
       /\ tasks[id].kind = "generate"
       /\ tasks[id].tab = "text-to-diagram"
       /\ tasks[id].pc = "done"
       /\ tasks[id].err = ErrParser
  /\ error = ErrInvalidDiagram
  /\ background = DefaultBg
  /\ ~inProgress

\* a renderer is called for task id in this step
RenderCalled(id) ==
  /\ id <= Len(tasks')
  /\ tasks'[id].path # "none"
  /\ (id > Len(tasks) \/ tasks[id].path = "none")

\* C15: a renderer called while the preview target or its parent is missing
\* returns at once without throwing: the call is over in the same step with
\* no error of its own, no parser call and no rasterization, and data.current,
\* the error shown, the canvas and the background are what they were.
C15_NoTargetNoEffect ==
  [][\A id \in 1..MaxCalls :
       (RenderCalled(id) /\ ~canvasReady)
         => /\ tasks'[id].pc = "done"
            /\ tasks'[id].err = NoError
            /\ tasks'[id].calls = <<>>
            /\ tasks'[id].raster = "none"
            /\ data' = data
            /\ error' = error
            /\ canvas' = canvas
            /\ background' = background]_vars

\* both renderers have been called without a preview target and are over,
\* nothing is shown and nothing is held
C15_Witness ==
  /\ ~canvasReady
  /\ \E id \in TaskIds, other \in TaskIds :
       /\ tasks[id].path = "mermaid"
       /\ tasks[id].pc = "done"
       /\ tasks[other].path = "mindmap"
       /\ tasks[other].kind = "json"
       /\ tasks[other].pc = "done"
  /\ error = NoError
  /\ data = NoElements

\* C19: while the dialog is open and no render call is in flight, data.current
\* holds the elements of the canvas in the preview; and an Insert made then
\* commits the elements the preview displays, and is made only when the
\* preview shows a canvas and no error.
C19_BufferIsPreview ==
  /\ []((dialogOpen /\ AllDone) => data = canvas)
  /\ [][(AllDone /\ inserted' # inserted)
          => /\ inserted' = canvas
             /\ canvas # NoElements
             /\ error = NoError]_vars

\* the generations in flight: calls of onGenerate that have not ended
InFlight == {id \in TaskIds : tasks[id].kind = "generate" /\ tasks[id].pc # "done"}
\* the step calls submitFn: a call of onGenerate gets to its await
Submits == Len(tasks') > Len(tasks) /\ tasks'[Len(tasks')].kind = "generate"

\* C21: onGenerate calls submitFn only with the flag clear, a trimmed prompt
\* of 3 to 1000 characters and a remaining rate limit other than 0, and the
\* flag is set when it does; while the dialog is open the flag is set exactly
\* when a generation is in flight, and there is at most one; and whenever the
\* flag is set it is clear again later, whatever the awaited calls answer.
C21_FlagReleased ==
  /\ [][Submits
         => /\ ~inProgress
            /\ rateLeft # 0
            /\ inProgress'
            /\ tasks'[Len(tasks')].pc = "submit"
            /\ \E t \in UserTexts, tb \in {"text-to-diagram", "mindmap"} :
                 /\ onGenerate(t, tb)
                 /\ StringLength(Trim(t)) >= 3
                 /\ StringLength(Trim(t)) <= 1000]_vars
  /\ [](Cardinality(InFlight) <= 1)
  /\ [](dialogOpen => (inProgress <=> InFlight # {}))
  /\ (inProgress ~> ~inProgress)

\* a generation has ended after its render failed, the flag is clear and a
\* second generation has been submitted
C21_Witness ==
  /\ Len(tasks) = 2
  /\ tasks[1].kind = "generate"
  /\ tasks[1].pc = "done"
  /\ tasks[1].err # NoError
  /\ tasks[2].kind = "generate"
  /\ tasks[2].pc = "done"
  /\ ~inProgress

\* ======================================= buildMindmapElements: the claims
\* exact values, in units of 2^-UnitBits
UnitBits == 16
Units(a) == IF a.m = 0 THEN 0 ELSE a.m * Pow2(a.e + UnitBits)
Sign(n) == IF n < 0 THEN -1 ELSE IF n > 0 THEN 1 ELSE 0

Built == stage = "built"
\* the primitives emitted, and the rectangle emitted for the node of an index
Emitted == buildResult.elements
Arrows == {i \in DOMAIN Emitted : Emitted[i].type = "arrow"}
RectOfNode(index) == Emitted[2 * index + 1]
ArrowOfEdge(k) == Emitted[2 * Len(layout.positioned) + k]

\* C13: there is exactly one arrow per edge of the layout, the arrow of an
\* edge starts bound to the rectangle of the edge's parent and ends bound to
\* the rectangle of its child, and the lookup used for binding holds every
\* primitive emitted: rectangles, labels and arrows.
C13_ArrowsBound ==
  Built =>
    /\ Cardinality(Arrows) = Len(layout.edges)
    /\ Len(Emitted) = 2 * Len(layout.positioned) + Len(layout.edges)
    /\ \A k \in DOMAIN layout.edges :
         LET arrow == ArrowOfEdge(k)
             parentRect == RectOfNode(layout.edges[k].from)
             childRect == RectOfNode(layout.edges[k].to)
         IN /\ arrow.type = "arrow"
            /\ parentRect.type = "rectangle" /\ childRect.type = "rectangle"
            /\ arrow.startBinding # Null /\ arrow.startBinding.elementId = parentRect.id
            /\ arrow.endBinding # Null /\ arrow.endBinding.elementId = childRect.id
    /\ buildResult.scene = {Emitted[i].id : i \in DOMAIN Emitted}
    /\ Cardinality(buildResult.scene) = Len(Emitted)

C13_Witness ==
  /\ Built
  /\ Len(layout.edges) >= 5
  /\ \E k \in DOMAIN layout.edges :
       /\ layout.edges[k].from # 0
       /\ ArrowOfEdge(k).startBinding # Null
       /\ ArrowOfEdge(k).endBinding # Null

LabelOfNode(index) == Emitted[2 * index + 2]
NodeIndexes == 0..(Len(layout.positioned) - 1)
NodeAt(index) == layout.positioned[index + 1]

\* C16: the primitives start with, for every positioned node in index order,
\* one rectangle immediately followed by one label, and only arrows follow;
\* rectangle and label of a node carry the same single group identifier, which
\* no other node has; the label shows the node's topic and is centred at the
\* node's (x, y); the rectangle is centred on the label, 24 wider and 16
\* taller than the label's measured size.
C16_NodePrimitives ==
  Built =>
    /\ Len(Emitted) >= 2 * Len(layout.positioned)
    /\ \A i \in DOMAIN Emitted :
         i > 2 * Len(layout.positioned) <=> Emitted[i].type = "arrow"
    /\ \A index \in NodeIndexes :
         LET rect == RectOfNode(index)
             label == LabelOfNode(index)
             node == NodeAt(index)
         IN /\ rect.type = "rectangle"
            /\ label.type = "text"
            /\ label.text = node.topic
            /\ Len(rect.groupIds) = 1
            /\ label.groupIds = rect.groupIds
            /\ \A other \in NodeIndexes \ {index} :
                 RectOfNode(other).groupIds # rect.groupIds
            /\ 2 * Units(label.x) + Units(label.width) = 2 * Units(Num(node.x))
            /\ 2 * Units(label.y) + Units(label.height) = 2 * Units(Num(node.y))
            /\ 2 * Units(rect.x) + Units(rect.width) = 2 * Units(label.x) + Units(label.width)
            /\ 2 * Units(rect.y) + Units(rect.height)
                 = 2 * Units(label.y) + Units(label.height)
            /\ Units(rect.width) - Units(label.width) = Units(Num(24))
            /\ Units(rect.height) - Units(label.height) = Units(Num(16))

C16_Witness ==
  /\ Built
  /\ Len(layout.positioned) >= 6
  /\ \E index \in NodeIndexes :
       /\ NodeAt(index).depth = 2
       /\ NodeAt(index).x < 0
       /\ RectOfNode(index).type = "rectangle"
       /\ LabelOfNode(index).type = "text"
  /\ \E i \in DOMAIN Emitted : Emitted[i].type = "arrow"

StyleOf(element) ==
  [strokeColor |-> element.strokeColor, backgroundColor |-> element.backgroundColor,
   strokeWidth |-> element.strokeWidth]

\* depths up to which getNodeStyleByDepth is compared with its value at 2
MaxStyleDepth == 8

\* C17: in the primitives buildMindmapElements makes for a theme, the style
\* of every node's rectangle is the theme's style for min(depth, 2), whatever
\* the tree and the font: nodes of equal min(depth, 2) have equal styles, and
\* the label of a node has the stroke colour of its rectangle; for every
\* theme, getNodeStyleByDepth gives a depth above 2 the style of depth 2.
C17_StyleByTier ==
  Built =>
    /\ \A index \in NodeIndexes :
         /\ StyleOf(RectOfNode(index))
              = getNodeStyleByDepth(buildResult.themeId, Min(NodeAt(index).depth, 2))
         /\ LabelOfNode(index).strokeColor = RectOfNode(index).strokeColor
         /\ \A other \in NodeIndexes :
              Min(NodeAt(other).depth, 2) = Min(NodeAt(index).depth, 2)
                => StyleOf(RectOfNode(other)) = StyleOf(RectOfNode(index))
    /\ \A themeId \in Themes, depth \in 3..MaxStyleDepth :
         getNodeStyleByDepth(themeId, depth) = getNodeStyleByDepth(themeId, 2)

C17_Witness ==
  /\ Built
  /\ buildResult.themeId = "warm"
  /\ \E index \in NodeIndexes, other \in NodeIndexes :
       /\ index # other
       /\ NodeAt(index).depth = 2
       /\ NodeAt(other).depth = 2
       /\ RectOfNode(index).strokeColor = "#92400E"
       /\ LabelOfNode(index).strokeColor = "#92400E"
       /\ StyleOf(RectOfNode(other)) = StyleOf(RectOfNode(index))
  /\ \E index \in NodeIndexes :
       /\ NodeAt(index).depth = 1
       /\ RectOfNode(index).strokeColor = "#9A3412"

\* ============================================ getRectEdgeAnchor: the claim
\* C14: with distinct centres the anchor is on the rectangle's boundary: on
\* one axis, along which the centres differ, it is offset from the centre by
\* exactly the half-extent, towards the target, and on the other axis it
\* stays within the extent; with both deltas zero it is the centre. Centre,
\* deltas and half-extents are the ones the function computes.
C14_AnchorOnBoundary ==
  stage = "anchored" =>
    LET el == anchorArgs.element
        centerX == FAdd(el.x, FHalf(el.width))
        centerY == FAdd(el.y, FHalf(el.height))
        halfWidth == Units(FHalf(FAbs(el.width)))
        halfHeight == Units(FHalf(FAbs(el.height)))
        dx == FSub(anchorArgs.targetCenterX, centerX).m
        dy == FSub(anchorArgs.targetCenterY, centerY).m
        offsetX == Units(anchor.x) - Units(centerX)
        offsetY == Units(anchor.y) - Units(centerY)
    IN IF dx = 0 /\ dy = 0
       THEN offsetX = 0 /\ offsetY = 0
       ELSE \/ dx # 0 /\ offsetX = Sign(dx) * halfWidth /\ Abs(offsetY) <= halfHeight
            \/ dy # 0 /\ offsetY = Sign(dy) * halfHeight /\ Abs(offsetX) <= halfWidth

====
